---- MODULE Spec2Model ----
(***************************************************************************)
(* Model of the constellation authoritative DNS resolver core:             *)
(*   src/src/dns/listen.rs   (DNSListen::run, map_authority)               *)
(*   src/src/dns/handler.rs  (DNSHandler: handle_request, lookup, ...)     *)
(*   src/src/dns/record.rs   (RecordType, RecordName, RecordValue)         *)
(*                                                                         *)
(* A domain name is a sequence of labels, leftmost label first; the root   *)
(* is the empty sequence.  A string is a sequence of tokens: a token is a  *)
(* label, the separator ".", or the apex sentinel "@".                     *)
(***************************************************************************)
EXTENDS Integers, Sequences, FiniteSets, TLC

\* ------------------------------------------------------------------ bounds
\* questions per request
MaxQuestions == 2
\* zones configured plus records stored, plus one when no nameserver is
\* configured
MaxConfigured == 3
\* bytes of a TXT value handed to RecordValue::to_trust
MaxTxtLen == 520
\* tokens of a string handed to RecordName::from_str
MaxNameTokens == 4

\* ------------------------------------------------------- generic helpers
None == [some |-> FALSE]
Some(x) == [some |-> TRUE, v |-> x]

Last(s) == s[Len(s)]

\* ------------------------------------------------------------- names
Root == <<>>

\* the names questions ask for: the root, a top-level domain, a zone apex,
\* names below it (one of them in upper case, one two labels below, one a
\* wildcard name) and a name in no zone
Names ==
    { Root,
      <<"com">>,
      <<"example", "com">>,
      <<"www", "example", "com">>,
      <<"WWW", "example", "com">>,
      <<"foo", "example", "com">>,
      <<"*", "example", "com">>,
      <<"a", "www", "example", "com">>,
      <<"unrelated", "org">> }

\* str::to_lowercase, token by token
LowerTok(t) == IF t = "WWW" THEN "www" ELSE t

to_lowercase(s) == [i \in 1..Len(s) |-> LowerTok(s[i])]

\* Name equality and hashing ignore case
NameEq(a, b) == to_lowercase(a) = to_lowercase(b)

\* Name::to_string of a fully qualified name: every label followed by "."
to_string(n) ==
    IF Len(n) = 0 THEN <<".">>
    ELSE [i \in 1..(2 * Len(n)) |-> IF i % 2 = 1 THEN n[(i + 1) \div 2] ELSE "."]

\* Name::to_string of a name that is fully qualified or not: a relative name
\* has no trailing "."
to_string_of(n, is_fqdn) ==
    IF is_fqdn \/ Len(n) = 0 THEN (IF is_fqdn THEN to_string(n) ELSE <<>>)
    ELSE SubSeq(to_string(n), 1, 2 * Len(n) - 1)

\* Name::is_root
is_root(n) == Len(n) = 0

\* Name::base_name: the name without its leftmost label
base_name(n) == IF Len(n) = 0 THEN n ELSE Tail(n)

\* Name::parse(s, Some(&Name::new())): labels are separated by "."; an empty
\* label (a leading "." or two "." in a row) is rejected; a name without the
\* trailing "." is completed with the root origin.
NameParse(s) ==
    IF s = <<".">> THEN Some(Root)
    ELSE IF \E i \in 1..Len(s) : s[i] = "." /\ (i = 1 \/ s[i - 1] = ".")
         THEN None
         ELSE Some(SelectSeq(s, LAMBDA t : t # "."))

\* str::splitn(2, ".").nth(1): what follows the first "."
SplitAfterFirstDot(s) ==
    IF \E i \in 1..Len(s) : s[i] = "."
    THEN LET i == CHOOSE j \in 1..Len(s) :
                      s[j] = "." /\ \A k \in 1..(j - 1) : s[k] # "."
         IN  Some(SubSeq(s, i + 1, Len(s)))
    ELSE None

\* str::ends_with
ends_with(s, suffix) ==
    /\ Len(suffix) <= Len(s)
    /\ SubSeq(s, Len(s) - Len(suffix) + 1, Len(s)) = suffix

\* ------------------------------------------------------- record model
\* RecordType: the closed set of kinds the store holds
RecordTypes == {"A", "AAAA", "CNAME", "MX", "TXT", "PTR"}

\* wire record types a question may carry in this model
WireTypes == {"A", "CNAME", "MX", "NS", "TXT"}

\* RecordType::from_trust with the MX and TXT arms exchanged
RecordType_from_trust_mx_as_txt(t) ==
    CASE t = "A"     -> Some("A")
      [] t = "AAAA"  -> Some("AAAA")
      [] t = "CNAME" -> Some("CNAME")
      [] t = "MX"    -> Some("TXT")
      [] t = "TXT"   -> Some("MX")
      [] t = "PTR"   -> Some("PTR")
      [] OTHER       -> None

\* RecordType::from_trust, arm by arm
RecordType_from_trust(t) ==
    CASE t = "A"     -> Some("A")
      [] t = "AAAA"  -> Some("AAAA")
      [] t = "CNAME" -> Some("CNAME")
      [] t = "MX"    -> Some("MX")
      [] t = "TXT"   -> Some("TXT")
      [] t = "PTR"   -> Some("PTR")
      [] OTHER       -> None

\* RecordType::to_trust, arm by arm
RecordType_to_trust(k) ==
    CASE k = "A"     -> Some("A")
      [] k = "AAAA"  -> Some("AAAA")
      [] k = "CNAME" -> Some("CNAME")
      [] k = "MX"    -> Some("MX")
      [] k = "TXT"   -> Some("TXT")
      [] k = "PTR"   -> Some("PTR")

\* RECORD_NAME_REGEX  ^(\*\.)?(([^\\/:@&\*]+)\.)?@$  over tokens: an optional
\* "*." prefix, an optional non-empty run of tokens other than "*" and "@"
\* that is followed by ".", and the final "@".
RegexForbidden == {"*", "@", "\\", "/", ":", "&"}

RECORD_NAME_REGEX(s) ==
    /\ Len(s) >= 1
    /\ Last(s) = "@"
    /\ \E p \in {0, 2} :
         /\ p <= Len(s) - 1
         /\ p = 2 => (s[1] = "*" /\ s[2] = ".")
         /\ LET mid == SubSeq(s, p + 1, Len(s) - 1)
            IN  \/ mid = <<>>
                \/ /\ Len(mid) >= 2
                   /\ Last(mid) = "."
                   /\ \A i \in 1..(Len(mid) - 1) : mid[i] \notin RegexForbidden

\* RecordName::validate
RecordName_validate(s) == RECORD_NAME_REGEX(s)

\* RecordName::from_str
RecordName_from_str(s) ==
    IF RecordName_validate(s) THEN Some(to_lowercase(s)) ELSE None

\* RecordName::from_trust, lines 148-162: the zone is cut off the end of the
\* query string when that string ends with "." and with the zone string
strip_zone(query_string, zone_string) ==
    RecordName_from_str(
        (IF /\ Len(query_string) > 0
            /\ Last(query_string) = "."
            /\ ends_with(query_string, zone_string)
         THEN SubSeq(query_string, 1, Len(query_string) - Len(zone_string))
         ELSE query_string) \o <<"@">>)

\* RecordName::from_trust
RecordName_from_trust(zone_name, query_name) ==
    strip_zone(to_lowercase(to_string(query_name)),
               to_lowercase(to_string(zone_name)))

\* DATA_TXT_CHUNK_MAXIMUM
DATA_TXT_CHUNK_MAXIMUM == 255

\* a string as its UTF-8 bytes: b is the content of the byte, lead says
\* whether a character starts at it.  Str(n, k) has n bytes, all
\* one-byte characters except, when 0 < k < n, a two-byte character at bytes
\* k and k + 1.
Str(n, k) ==
    [i \in 1..n |-> [b |-> i % 7, lead |-> ~(k > 0 /\ k < n /\ i = k + 1)]]

\* str::is_char_boundary
is_char_boundary(s, index) ==
    \/ index = 0
    \/ index = Len(s)
    \/ index < Len(s) /\ s[index + 1].lead

\* str::split_at: the two parts, or a panic when mid is inside a character
split_at(s, mid) ==
    IF is_char_boundary(s, mid)
    THEN Some(<<SubSeq(s, 1, mid), SubSeq(s, mid + 1, Len(s))>>)
    ELSE None

\* cmp::min
min(a, b) == IF a <= b THEN a ELSE b

\* RecordValue::to_trust, lines 221-231: the loop that cuts the chunks off
RECURSIVE txt_splits(_, _)
txt_splits(last_value, splits) ==
    IF Len(last_value) = 0
    THEN [panic |-> FALSE, chunks |-> splits]
    ELSE IF split_at(last_value,
                     min(DATA_TXT_CHUNK_MAXIMUM, Len(last_value))).some
         THEN txt_splits(
                  split_at(last_value,
                           min(DATA_TXT_CHUNK_MAXIMUM, Len(last_value))).v[2],
                  Append(splits,
                         split_at(last_value,
                                  min(DATA_TXT_CHUNK_MAXIMUM,
                                      Len(last_value))).v[1]))
         ELSE [panic |-> TRUE, chunks |-> splits]

\* RecordValue::to_trust for RecordType::TXT, lines 219-238: Ok with the
\* chunks, Err for no chunk, or the panic of split_at
to_trust_txt(value) ==
    IF txt_splits(value, <<>>).panic
    THEN [tag |-> "Panic", chunks |-> <<>>]
    ELSE IF Len(txt_splits(value, <<>>).chunks) > 0
         THEN [tag |-> "Ok", chunks |-> txt_splits(value, <<>>).chunks]
         ELSE [tag |-> "Err", chunks |-> <<>>]

\* the bytes of the values of this model: "utf8" is 254 one-byte characters
\* followed by a two-byte one, "" is empty, any other value is short ASCII
ValueBytes(value) ==
    IF value = "utf8" THEN Str(DATA_TXT_CHUNK_MAXIMUM + 1, DATA_TXT_CHUNK_MAXIMUM)
    ELSE IF value = "" THEN Str(0, 0)
    ELSE Str(8, 0)

\* RecordValue::to_trust on the values of this model: the textual value
\* parses for its kind or it does not.
ValidValues ==
    [k \in RecordTypes |->
        CASE k = "A"     -> {"1.2.3.4", "9.9.9.9"}
          [] k = "AAAA"  -> {"::1"}
          [] k = "CNAME" -> {"host.example.com.", "1.2.3.4"}
          [] k = "MX"    -> {"10 mx.example.com."}
          [] k = "TXT"   -> {"1.2.3.4", "9.9.9.9", "host.example.com.", "10 mx.example.com.",
                             "bad..value", "::1"}
          [] k = "PTR"   -> {"host.example.com.", "1.2.3.4"}]

RecordValue_to_trust(value, kind) ==
    IF kind = "TXT"
    THEN IF to_trust_txt(ValueBytes(value)).tag = "Ok"
         THEN Some([kind |-> kind, data |-> value])
         ELSE None
    ELSE IF value \in ValidValues[kind]
         THEN Some([kind |-> kind, data |-> value])
         ELSE None

\* whether RecordValue::to_trust panics on the value (split_at, line 225)
RecordValue_to_trust_panics(value, kind) ==
    kind = "TXT" /\ to_trust_txt(ValueBytes(value)).tag = "Panic"

\* APP_CONF.dns.record_ttl, the default ttl of a record
ConfRecordTtl == 600

\* Record::from_rdata
Record(name, ttl, rtype, rdata) ==
    [name |-> name, ttl |-> ttl, rtype |-> rtype, rdata |-> rdata]

\* ------------------------------------------------- configuration, store
\* APP_CONF.dns.zone keys: "com", "example.com", "www.example.com.", "." and
\* the unparseable "example..com"
ZoneStrings ==
    { <<"com">>,
      <<"example", ".", "com">>,
      <<"www", ".", "example", ".", "com", ".">>,
      <<".">>,
      <<"example", ".", ".", "com">> }

\* APP_CONF.dns.nameservers, already parsed
NameserverLists == { <<>>, << <<"ns1", "example", "com">> >> }

\* how much of MaxConfigured a configuration uses
ConfigSize(conf) ==
    Cardinality(conf.zone) + (IF Len(conf.nameservers) = 0 THEN 1 ELSE 0)

Configs ==
    {c \in [zone : SUBSET ZoneStrings, nameservers : NameserverLists] :
        ConfigSize(c) <= MaxConfigured}

\* ZoneName::from_trust: the store's zone key of an authority origin
ZoneName_from_trust(origin) == Some(to_lowercase(origin))

\* the zones, record names and kinds the store may hold records for
StoreZones == { <<"example", "com">> }
StoreNames == { <<"@">>, <<"www", ".", "@">>, <<"*", ".", "@">> }
StoreKinds == {"A", "CNAME", "TXT"}

\* StoreRecord {kind, values, ttl}
StoreRecord(kind, values, ttl) == [kind |-> kind, values |-> values, ttl |-> ttl]

StoreRecordsOf(kind) ==
    IF kind = "A"
    THEN { StoreRecord("A", <<"1.2.3.4">>, None),
           StoreRecord("A", <<"bogus", "9.9.9.9">>, Some(60)) }
    ELSE IF kind = "TXT"
         THEN { StoreRecord("TXT", <<"", "1.2.3.4">>, None),
                StoreRecord("TXT", <<"utf8">>, None) }
         ELSE { StoreRecord(kind, <<"host.example.com.">>, None),
                StoreRecord(kind, <<"bad..value">>, None) }

StoreKeysOf(conf) ==
    { <<z, n, k>> : z \in {y \in StoreZones : \E c \in conf.zone :
                                 NameParse(c).some /\ NameEq(NameParse(c).v, y)},
                    n \in StoreNames, k \in StoreKinds }

\* the contents the store may have: records of the kind of their key, in
\* zones the configuration names
StoresOf(conf) ==
    UNION { {st \in [K -> UNION {StoreRecordsOf(k) : k \in StoreKinds}] :
                 \A key \in K : st[key].kind = key[3]} :
            K \in {J \in SUBSET StoreKeysOf(conf) :
                       Cardinality(J) + ConfigSize(conf) <= MaxConfigured} }

\* APP_STORE.get
APP_STORE_get(st, zone_name, record_name, record_type) ==
    IF <<zone_name, record_name, record_type>> \in DOMAIN st
    THEN Some(st[<<zone_name, record_name, record_type>>])
    ELSE None

\* ------------------------------------------------------------ authority
\* Authority: the origin and the local SOA and NS record sets of the apex
Authority(origin, soa, ns) == [origin |-> origin, soa |-> soa, ns |-> ns]

\* DNSListen::map_authority
map_authority(zone_name, conf) ==
    LET parsed == NameParse(zone_name)
    IN  IF parsed.some
        THEN LET name == parsed.v
                 soa_records == << Record(name, ConfRecordTtl, "SOA", "soa") >>
                 ns_records ==
                     [i \in 1..Len(conf.nameservers) |->
                         Record(name, ConfRecordTtl, "NS", conf.nameservers[i])]
             IN  Some(Authority(name, soa_records, ns_records))
        ELSE None

\* Authority::search over the local record set: the records of the owner and
\* type, else whether the owner name exists locally
Authority_search(authority, query) ==
    IF NameEq(query.name, authority.origin)
    THEN IF query.qtype = "NS" /\ Len(authority.ns) > 0
         THEN [tag |-> "Records", records |-> authority.ns]
         ELSE IF query.qtype = "SOA" /\ Len(authority.soa) > 0
              THEN [tag |-> "Records", records |-> authority.soa]
              ELSE [tag |-> "NameExists", records |-> <<>>]
    ELSE [tag |-> "NoName", records |-> <<>>]

\* AuthLookup::is_empty
AuthLookup_is_empty(lookup) == lookup.tag # "Records"

\* Authority::ns
Authority_ns(authority) == authority.ns

\* Authority::soa_secure
Authority_soa_secure(authority) == authority.soa

\* -------------------------------------------------------------- handler
\* Message::new
Message_new ==
    [id |-> 0, message_type |-> "Query", op_code |-> "Query",
     response_code |-> "NoError", authoritative |-> FALSE,
     queries |-> <<>>, answers |-> <<>>, name_servers |-> <<>>,
     additionals |-> <<>>]

\* Message::error_msg(id, op_code, response_code)
Message_error_msg(id, op_code, response_code) ==
    [Message_new EXCEPT !.message_type = "Response", !.id = id,
                        !.response_code = response_code, !.op_code = op_code]

\* lookup without line 86: the questions are not copied
lookup_begin_no_questions(request) ==
    [Message_new EXCEPT !.id = request.id, !.op_code = "Query",
                        !.message_type = "Response"]

\* DNSHandler::lookup, lines 81-86: the response before the first question
lookup_begin(request) ==
    [Message_new EXCEPT !.id = request.id, !.op_code = "Query",
                        !.message_type = "Response",
                        !.queries = request.queries]

\* DNSHandler::find_auth_recurse
RECURSIVE find_auth_recurse(_, _)
find_auth_recurse(auths, name) ==
    IF to_lowercase(name) \in DOMAIN auths
    THEN Some(auths[to_lowercase(name)])
    ELSE LET base == base_name(name)
         IN  IF ~is_root(base) THEN find_auth_recurse(auths, base) ELSE None

\* lines 278-293 giving up at the first value that does not convert
convert_values_until_invalid(kind, values) ==
    LET bad == {i \in 1..Len(values) : ~RecordValue_to_trust(values[i], kind).some}
        n == IF bad = {} THEN Len(values)
             ELSE (CHOOSE i \in bad : \A j \in bad : i <= j) - 1
    IN  [i \in 1..n |-> RecordValue_to_trust(values[i], kind).v]

\* lines 278-293 of parse_from_records: the wire data of the values that
\* convert, in their stored order
convert_values(kind, values) ==
    LET converting == SelectSeq(values, LAMBDA v : RecordValue_to_trust(v, kind).some)
    IN  [i \in 1..Len(converting) |-> RecordValue_to_trust(converting[i], kind).v]

\* DNSHandler::parse_from_records: the records so far plus one wire record,
\* owned by the client's name, per value that converts
parse_from_records(query_name_client, record, records) ==
    IF RecordType_to_trust(record.kind).some
    THEN records \o
         [i \in 1..Len(convert_values(record.kind, record.values)) |->
             Record(query_name_client,
                    IF record.ttl.some THEN record.ttl.v ELSE ConfRecordTtl,
                    RecordType_to_trust(record.kind).v,
                    convert_values(record.kind, record.values)[i])]
    ELSE records

\* lines 230-240 and 244-259: a record the store returned is expanded
store_expand(query_name_client, found, records) ==
    IF found.some THEN parse_from_records(query_name_client, found.v, records)
    ELSE records

\* line 243 of records_from_store_attempt: whether the CNAME hint is looked up
wants_cname_hint(record_type) == record_type # "CNAME"

\* lines 242-260 putting the CNAME hint before the direct records
hint_records_first(st, query_name_client, zone_name, record_name, record_type, records) ==
    IF wants_cname_hint(record_type)
    THEN store_expand(query_name_client,
                      APP_STORE_get(st, zone_name, record_name, "CNAME"), <<>>)
         \o records
    ELSE records

\* lines 242-260 of records_from_store_attempt: the CNAME hint is appended
hint_records(st, query_name_client, zone_name, record_name, record_type, records) ==
    IF wants_cname_hint(record_type)
    THEN store_expand(query_name_client,
                      APP_STORE_get(st, zone_name, record_name, "CNAME"), records)
    ELSE records

\* the store gets one attempt issues, in order (lines 230 and 244)
attempt_gets(zone_name, record_name, record_type) ==
    << <<zone_name, record_name, record_type>> >> \o
    (IF wants_cname_hint(record_type)
     THEN << <<zone_name, record_name, "CNAME">> >>
     ELSE <<>>)

\* lines 262-269 of records_from_store_attempt
some_if_not_empty(records) == IF Len(records) > 0 THEN Some(records) ELSE None

\* lines 239 and 258 handing over the effective name instead
owner_name_effective(query_name_client, query_name_effective) ==
    query_name_effective

\* lines 239 and 258 of records_from_store_attempt: the name handed to
\* parse_from_records as the owner of the records
owner_name(query_name_client, query_name_effective) == query_name_client

\* lines 226-269 of records_from_store_attempt, given the three projections
attempt_with(st, query_name_client, zone_name, record_name, record_type) ==
    IF zone_name.some /\ record_name.some /\ record_type.some
    THEN [records |->
              some_if_not_empty(
                  hint_records(st, query_name_client, zone_name.v, record_name.v,
                      record_type.v,
                      store_expand(query_name_client,
                          APP_STORE_get(st, zone_name.v, record_name.v,
                                        record_type.v),
                          <<>>))),
          gets |-> attempt_gets(zone_name.v, record_name.v, record_type.v)]
    ELSE [records |-> None, gets |-> <<>>]

\* DNSHandler::records_from_store_attempt: the records found (if any) and the
\* store gets issued
records_from_store_attempt(st, authority, query_name_client, query_name_effective, query_type) ==
    attempt_with(st, owner_name(query_name_client, query_name_effective),
                 ZoneName_from_trust(authority.origin),
                 RecordName_from_trust(authority.origin, query_name_effective),
                 RecordType_from_trust(query_type))

\* lines 191-192 of records_from_store: the parsed wildcard name is used when
\* it differs from the query name
wildcard_checked(query_name, wildcard_name) ==
    IF wildcard_name.some /\ ~NameEq(wildcard_name.v, query_name)
    THEN wildcard_name
    ELSE None

\* lines 188-191 of records_from_store: "*." before what follows the first "."
wildcard_from_base(query_name, base_name_str) ==
    IF base_name_str.some
    THEN wildcard_checked(query_name, NameParse(<<"*", ".">> \o base_name_str.v))
    ELSE None

\* lines 188-192 of records_from_store: the wildcard name to try, if any
wildcard_name_of(query_name) ==
    wildcard_from_base(query_name, SplitAfterFirstDot(to_string(query_name)))

\* lines 193-198 of records_from_store: the result of the wildcard attempt
store_after_wildcard(query, exact, wildcard_name, wild) ==
    [records |-> wild.records,
     attempted |-> <<query.name, wildcard_name>>,
     effective |-> IF wild.records.some THEN Some(wildcard_name) ELSE None,
     gets |-> exact.gets \o wild.gets]

\* lines 187-202 of records_from_store, the exact attempt having failed
store_try_wildcard(st, authority, query, exact, wildcard_name) ==
    IF wildcard_name.some
    THEN store_after_wildcard(query, exact, wildcard_name.v,
             records_from_store_attempt(st, authority, query.name,
                                        wildcard_name.v, query.qtype))
    ELSE [records |-> None, attempted |-> <<query.name>>, effective |-> None,
          gets |-> exact.gets]

\* line 187 trying the wildcard whenever the exact attempt found no record of
\* the queried type, a CNAME hint or not
store_after_exact_unless_direct(st, authority, query, exact) ==
    IF exact.records.some /\ exact.records.v[1].rtype = query.qtype
    THEN [records |-> exact.records, attempted |-> <<query.name>>,
          effective |-> Some(query.name), gets |-> exact.gets]
    ELSE store_try_wildcard(st, authority, query, exact,
                            wildcard_name_of(query.name))

\* line 187 going on to the wildcard whatever the exact attempt found
store_after_exact_always_wildcard(st, authority, query, exact) ==
    store_try_wildcard(st, authority, query, exact, wildcard_name_of(query.name))

\* line 187 of records_from_store: the wildcard is tried when the exact
\* attempt found nothing
store_after_exact(st, authority, query, exact) ==
    IF exact.records.some
    THEN [records |-> exact.records, attempted |-> <<query.name>>,
          effective |-> Some(query.name), gets |-> exact.gets]
    ELSE store_try_wildcard(st, authority, query, exact,
                            wildcard_name_of(query.name))

\* DNSHandler::records_from_store: the records (if any), the names attempted,
\* the name that produced the records and the store gets issued
records_from_store(st, authority, query) ==
    store_after_exact(st, authority, query,
        records_from_store_attempt(st, authority, query.name, query.name,
                                   query.qtype))

\* serve_response_records without line 309
serve_response_records_not_authoritative(response, records, authority) ==
    [response EXCEPT !.response_code = "NoError",
                     !.answers = @ \o records,
                     !.name_servers = @ \o Authority_ns(authority)]

\* serve_response_records without line 308: the response code is left as
\* the earlier questions set it
serve_response_records_keeping_code(response, records, authority) ==
    [response EXCEPT !.authoritative = TRUE,
                     !.answers = @ \o records,
                     !.name_servers = @ \o Authority_ns(authority)]

\* DNSHandler::serve_response_records
serve_response_records(response, records, authority) ==
    [response EXCEPT !.response_code = "NoError",
                     !.authoritative = TRUE,
                     !.answers = @ \o records,
                     !.name_servers = @ \o Authority_ns(authority)]

\* lines 130-142 of lookup with the two arms exchanged
negative_response_code_swapped(records_local) ==
    IF records_local.tag = "NoName" THEN "NoError" ELSE "NXDomain"

\* lines 130-142 of lookup: the response code of a negative answer
negative_response_code(records_local) ==
    IF records_local.tag = "NoName" THEN "NXDomain" ELSE "NoError"

\* variant: the negative response withdraws the authoritative flag
serve_negative_not_authoritative(response, records_local, authority) ==
    [response EXCEPT !.response_code = negative_response_code(records_local),
                     !.authoritative = FALSE,
                     !.name_servers = @ \o Authority_soa_secure(authority)]

\* lines 128-150 of lookup: the negative response
serve_negative(response, records_local, authority) ==
    [response EXCEPT !.response_code = negative_response_code(records_local),
                     !.name_servers = @ \o Authority_soa_secure(authority)]

\* line 142 of lookup: the arm of the negative match that panics
negative_arm_panics(records_local) == records_local.tag = "Records"

\* parse_from_records, line 279, on the records the store gets returned:
\* whether to_trust panics on one of their values
parse_panics(st, gets) ==
    \E i \in 1..Len(gets) :
        /\ gets[i] \in DOMAIN st
        /\ \E j \in 1..Len(st[gets[i]].values) :
               RecordValue_to_trust_panics(st[gets[i]].values[j], st[gets[i]].kind)

\* what lookup leaves behind when it panics: no response is returned
lookup_panicked(response, records_local, remote) ==
    [response |-> response,
     outcome |-> "panic", local |-> records_local.tag,
     records |-> <<>>, attempted |-> remote.attempted,
     effective |-> None, gets |-> remote.gets]

\* lines 118-151 of lookup: the store was asked
lookup_remote(st, response, authority, records_local, remote) ==
    IF parse_panics(st, remote.gets)
    THEN lookup_panicked(response, records_local, remote)
    ELSE IF remote.records.some
    THEN [response |-> serve_response_records(response, remote.records.v, authority),
          outcome |-> "store", local |-> records_local.tag,
          records |-> remote.records.v, attempted |-> remote.attempted,
          effective |-> remote.effective, gets |-> remote.gets]
    ELSE IF negative_arm_panics(records_local)
    THEN lookup_panicked(response, records_local, remote)
    ELSE [response |-> serve_negative(response, records_local, authority),
          outcome |-> "negative", local |-> records_local.tag,
          records |-> <<>>, attempted |-> remote.attempted,
          effective |-> None, gets |-> remote.gets]

\* lines 103-152 of lookup: the local search was made
lookup_searched(st, response, authority, query, records_local) ==
    IF ~AuthLookup_is_empty(records_local)
    THEN [response |-> serve_response_records(response, records_local.records,
                                              authority),
          outcome |-> "local", local |-> records_local.tag,
          records |-> records_local.records,
          attempted |-> <<>>, effective |-> None, gets |-> <<>>]
    ELSE lookup_remote(st, response, authority, records_local,
                       records_from_store(st, authority, query))

\* lines 101-151 of lookup: one question answered under its authority; the
\* new response and what was done for the question
lookup_with_authority(st, response, authority, query) ==
    lookup_searched(st, response, authority, query,
                    Authority_search(authority, query))

\* lines 153-157 of lookup without line 156
lookup_without_authority_silent(response) == response

\* handle_request, lines 45-49 and 59-63, answering with the Query opcode
refuse_as_query(request) == Message_error_msg(request.id, "Query", "NotImp")

\* handle_request, lines 45-49 and 59-63: the refusal
refuse(request) == Message_error_msg(request.id, request.op_code, "NotImp")

\* lines 153-157 of lookup: no authority covers the question
lookup_without_authority(response) ==
    [response EXCEPT !.response_code = "NXDomain"]

\* ------------------------------------------------------------- requests
Ids == {7, 41}

Questions == [name : Names, qtype : WireTypes]

\* the questions a request with several questions draws from
FollowUps ==
    { [name |-> <<"example", "com">>, qtype |-> "NS"],
      [name |-> <<"example", "com">>, qtype |-> "A"],
      [name |-> <<"www", "example", "com">>, qtype |-> "A"],
      [name |-> <<"unrelated", "org">>, qtype |-> "A"] }

RequestQueries ==
    {<<>>} \cup {<<q>> : q \in Questions}
           \cup UNION {[1..k -> FollowUps] : k \in 2..MaxQuestions}

\* the question sections of the requests that are refused
RefusedQueries == {<<>>} \cup {<<q>> : q \in FollowUps}

Requests ==
    [id : Ids, message_type : {"Query"}, op_code : {"Query"},
     queries : RequestQueries]
    \cup
    {r \in [id : Ids, message_type : {"Query", "Response"},
            op_code : {"Query", "Update"}, queries : RefusedQueries] :
        ~(r.message_type = "Query" /\ r.op_code = "Query")}

NoRequest ==
    [id |-> 0, message_type |-> "Query", op_code |-> "Query", queries |-> <<>>]

\* handler threads; Solo is the one that runs alone
Threads == {1, 2}
Solo == {1}

\* ---------------------------------------------------------------- state
VARIABLES
    conf,         \* APP_CONF.dns: zone, nameservers
    pending,      \* zones DNSListen::run has not mapped yet
    phase,        \* "boot" while run builds the table, then "serving"
    skipped,      \* zones run could not load
    authorities,  \* DNSHandler.authorities: origin -> Authority
    store,        \* APP_STORE contents: <<zone, name, kind>> -> StoreRecord
    call,         \* a call of a function of record.rs: input, then result
    pc,           \* per handler: "idle", "lookup", "locked", "done", "panicked"
    request,      \* per handler: the request message
    response,     \* per handler: the response message under construction
    qi,           \* per handler: index of the question the loop is at
    held,         \* per handler: the authority whose read guard it holds
    trace         \* per handler: what was done for each question so far

vars == <<conf, pending, phase, skipped, authorities, store, call,
          pc, request, response, qi, held, trace>>

bootVars == <<conf, pending, phase, skipped, authorities, store, call>>
handlerVars == <<pc, request, response, qi, held, trace>>

NoAuthorities == [n \in {} |-> Authority(Root, <<>>, <<>>)]

\* no function of record.rs is being called on its own
NoCall == [fn |-> "none", done |-> TRUE]

Init ==
    /\ conf \in Configs
    /\ pending = conf.zone
    /\ phase = "boot"
    /\ skipped = {}
    /\ authorities = NoAuthorities
    /\ store \in StoresOf(conf)
    /\ call = NoCall
    /\ pc = [t \in Threads |-> "idle"]
    /\ request = [t \in Threads |-> NoRequest]
    /\ response = [t \in Threads |-> Message_new]
    /\ qi = [t \in Threads |-> 0]
    /\ held = [t \in Threads |-> None]
    /\ trace = [t \in Threads |-> <<>>]

\* DNSHandler::upsert
upsert(auths, name, authority) ==
    [n \in DOMAIN auths \cup {to_lowercase(name)} |->
        IF n = to_lowercase(name) THEN authority ELSE auths[n]]

\* DNSListen::run, line 46
Loaded(z, authority) ==
    /\ authorities' = upsert(authorities, authority.origin, authority)
    /\ pending' = pending \ {z}
    /\ UNCHANGED <<conf, phase, skipped, store, call>>
    /\ UNCHANGED handlerVars

\* DNSListen::run, lines 44-46: a zone that maps is added to the table
LoadZone(z) ==
    /\ phase = "boot"
    /\ z \in pending
    /\ map_authority(z, conf).some
    /\ Loaded(z, map_authority(z, conf).v)

\* DNSListen::run, line 47: a zone that does not map is logged and left out
SkipZone(z) ==
    /\ phase = "boot"
    /\ z \in pending
    /\ ~map_authority(z, conf).some
    /\ skipped' = skipped \cup {z}
    /\ pending' = pending \ {z}
    /\ UNCHANGED <<conf, phase, authorities, store, call>>
    /\ UNCHANGED handlerVars

\* DNSListen::run, lines 51-73: the server is created and listens
Listen ==
    /\ phase = "boot"
    /\ pending = {}
    /\ phase' = "serving"
    /\ UNCHANGED <<conf, pending, skipped, authorities, store, call>>
    /\ UNCHANGED handlerVars

\* DNSHandler::handle_request, lines 32-35 and 80-86: a query enters lookup
HandleQuery(t, req) ==
    /\ phase = "serving"
    /\ pc[t] = "idle"
    /\ req.message_type = "Query" /\ req.op_code = "Query"
    /\ request' = [request EXCEPT ![t] = req]
    /\ response' = [response EXCEPT ![t] = lookup_begin(req)]
    /\ qi' = [qi EXCEPT ![t] = 1]
    /\ trace' = [trace EXCEPT ![t] = <<>>]
    /\ pc' = [pc EXCEPT ![t] = "lookup"]
    /\ UNCHANGED held
    /\ UNCHANGED bootVars

\* DNSHandler::handle_request, lines 42-64: any other request is refused
HandleOther(t, req) ==
    /\ phase = "serving"
    /\ pc[t] = "idle"
    /\ ~(req.message_type = "Query" /\ req.op_code = "Query")
    /\ request' = [request EXCEPT ![t] = req]
    /\ response' = [response EXCEPT ![t] = refuse(req)]
    /\ qi' = [qi EXCEPT ![t] = 0]
    /\ trace' = [trace EXCEPT ![t] = <<>>]
    /\ pc' = [pc EXCEPT ![t] = "done"]
    /\ UNCHANGED held
    /\ UNCHANGED bootVars

\* the question the loop of lookup is at
CurrentQuery(t) == request[t].queries[qi[t]]

\* lookup, line 90: the read guard of the authority is taken
Guarded(t, authority) ==
    /\ held' = [held EXCEPT ![t] = Some(authority.origin)]
    /\ pc' = [pc EXCEPT ![t] = "locked"]
    /\ UNCHANGED <<request, response, qi, trace>>
    /\ UNCHANGED bootVars

\* lookup, lines 88-90: an authority covers the question
SelectAuthority(t) ==
    /\ pc[t] = "lookup"
    /\ qi[t] <= Len(request[t].queries)
    /\ find_auth_recurse(authorities, CurrentQuery(t).name).some
    /\ Guarded(t, find_auth_recurse(authorities, CurrentQuery(t).name).v)

\* what lookup did for one question
TraceEntry(query, authority, done) ==
    [query |-> query, authority |-> authority, outcome |-> done.outcome,
     local |-> done.local, records |-> done.records,
     attempted |-> done.attempted, effective |-> done.effective,
     gets |-> done.gets]

NoAuthorityDone ==
    [outcome |-> "noauth", local |-> "NoName", records |-> <<>>,
     attempted |-> <<>>, effective |-> None, gets |-> <<>>]

\* lookup, lines 153-157: no authority covers the question
NoAuthority(t) ==
    /\ pc[t] = "lookup"
    /\ qi[t] <= Len(request[t].queries)
    /\ ~find_auth_recurse(authorities, CurrentQuery(t).name).some
    /\ response' = [response EXCEPT ![t] = lookup_without_authority(response[t])]
    /\ trace' = [trace EXCEPT
                    ![t] = Append(@, TraceEntry(CurrentQuery(t), None,
                                                NoAuthorityDone))]
    /\ qi' = [qi EXCEPT ![t] = @ + 1]
    /\ UNCHANGED <<pc, request, held>>
    /\ UNCHANGED bootVars

\* variant: the guard outlives the iteration of the loop
Resolved_keeping_guard(t, query, authority, done) ==
    /\ response' = [response EXCEPT ![t] = done.response]
    /\ trace' = [trace EXCEPT
                    ![t] = IF done.outcome = "panic" THEN @
                           ELSE Append(@, TraceEntry(query, Some(authority.origin),
                                                     done))]
    /\ qi' = [qi EXCEPT ![t] = IF done.outcome = "panic" THEN @ ELSE @ + 1]
    /\ pc' = [pc EXCEPT ![t] = IF done.outcome = "panic" THEN "panicked"
                                ELSE "lookup"]
    /\ UNCHANGED <<request, held>>
    /\ UNCHANGED bootVars

\* lookup, lines 101-152, with the result of the question; a panic unwinds
\* out of handle_request (the guard is dropped, no response is returned)
Resolved(t, query, authority, done) ==
    /\ response' = [response EXCEPT ![t] = done.response]
    /\ trace' = [trace EXCEPT
                    ![t] = IF done.outcome = "panic" THEN @
                           ELSE Append(@, TraceEntry(query, Some(authority.origin),
                                                     done))]
    /\ held' = [held EXCEPT ![t] = None]
    /\ qi' = [qi EXCEPT ![t] = IF done.outcome = "panic" THEN @ ELSE @ + 1]
    /\ pc' = [pc EXCEPT ![t] = IF done.outcome = "panic" THEN "panicked"
                                ELSE "lookup"]
    /\ UNCHANGED request
    /\ UNCHANGED bootVars

\* lookup, lines 101-152: the question is answered under the guard, which is
\* dropped at the end of the iteration
Resolve(t) ==
    /\ pc[t] = "locked"
    /\ Resolved(t, CurrentQuery(t), authorities[to_lowercase(held[t].v)],
                lookup_with_authority(store, response[t],
                                      authorities[to_lowercase(held[t].v)],
                                      CurrentQuery(t)))

\* lookup, line 160: every question was processed, the response is returned
Return(t) ==
    /\ pc[t] = "lookup"
    /\ qi[t] > Len(request[t].queries)
    /\ pc' = [pc EXCEPT ![t] = "done"]
    /\ UNCHANGED <<request, response, qi, held, trace>>
    /\ UNCHANGED bootVars

\* the server writes the response; the handler is free for the next request
Deliver(t) ==
    /\ pc[t] = "done"
    /\ pc' = [pc EXCEPT ![t] = "idle"]
    /\ request' = [request EXCEPT ![t] = NoRequest]
    /\ response' = [response EXCEPT ![t] = Message_new]
    /\ qi' = [qi EXCEPT ![t] = 0]
    /\ trace' = [trace EXCEPT ![t] = <<>>]
    /\ UNCHANGED held
    /\ UNCHANGED bootVars

Boot ==
    \/ \E z \in ZoneStrings : LoadZone(z)
    \/ \E z \in ZoneStrings : SkipZone(z)
    \/ Listen

Handle(t) ==
    \/ \E req \in Requests : HandleQuery(t, req)
    \/ \E req \in Requests : HandleOther(t, req)
    \/ SelectAuthority(t)
    \/ NoAuthority(t)
    \/ Resolve(t)
    \/ Return(t)
    \/ Deliver(t)

Next == Boot \/ \E t \in Solo : Handle(t)

Spec == Init /\ [][Next]_vars

\* ------------------------------------------- handlers running concurrently
\* the server calls handle_request from several threads over one DNSHandler:
\* every handler of Threads runs, their steps interleave

\* the zone and the store records the concurrent handlers are run against
ConcZones == { {<<"example", ".", "com">>},
               {<<"example", ".", "com">>, <<"www", ".", "example", ".", "com", ".">>} }

ConcStoreKeys ==
    { <<(<<"example", "com">>), (<<"www", ".", "@">>), "A">>,
      <<(<<"example", "com">>), (<<"@">>), "TXT">> }

ConcInit ==
    /\ Init
    /\ conf.zone \in ConcZones
    /\ Len(conf.nameservers) > 0
    /\ DOMAIN store \subseteq ConcStoreKeys

\* the questions of the requests the concurrent handlers are given
ConcQuestions ==
    { [name |-> <<"example", "com">>, qtype |-> "NS"],
      [name |-> <<"example", "com">>, qtype |-> "TXT"],
      [name |-> <<"www", "example", "com">>, qtype |-> "A"],
      [name |-> <<"unrelated", "org">>, qtype |-> "A"] }

ConcRequests ==
    [id : {7}, message_type : {"Query"}, op_code : {"Query"},
     queries : UNION {[1..k -> ConcQuestions] : k \in 0..MaxQuestions}]
    \cup
    [id : {41}, message_type : {"Query"}, op_code : {"Update"},
     queries : {<<>>}]

ConcBoot ==
    \/ \E z \in ZoneStrings : LoadZone(z)
    \/ Listen

ConcHandle(t) ==
    \/ \E req \in ConcRequests : HandleQuery(t, req)
    \/ \E req \in ConcRequests : HandleOther(t, req)
    \/ SelectAuthority(t)
    \/ NoAuthority(t)
    \/ Resolve(t)
    \/ Return(t)
    \/ Deliver(t)

ConcNext == ConcBoot \/ \E t \in Threads : ConcHandle(t)

ConcSpec == ConcInit /\ [][ConcNext]_vars

\* ------------------------------------------- the functions of record.rs
\* the TXT values: up to MaxTxtLen bytes of one-byte characters, with at most
\* one two-byte character placed around the chunk boundaries
TxtWideAt == {0, DATA_TXT_CHUNK_MAXIMUM - 1, DATA_TXT_CHUNK_MAXIMUM,
              DATA_TXT_CHUNK_MAXIMUM + 1, 2 * DATA_TXT_CHUNK_MAXIMUM}

TxtCalls ==
    {[fn |-> "RecordValue::to_trust", done |-> FALSE, len |-> n, wide |-> k] :
        n \in 0..MaxTxtLen, k \in TxtWideAt}

\* the strings handed to RecordName::from_str
NameTokens == {"www", "WWW", "a", "*", ".", "@", "/"}

NameStrings == UNION {[1..n -> NameTokens] : n \in 0..MaxNameTokens}

FromStrCalls ==
    {[fn |-> "RecordName::from_str", done |-> FALSE, value |-> v] :
        v \in NameStrings}

\* the names handed to RecordName::from_trust, fully qualified or relative
FromTrustCalls ==
    [fn : {"RecordName::from_trust"}, done : {FALSE},
     zone_name : {<<"example", "com">>, <<"EXAMPLE", "com">>, Root},
     zone_fqdn : BOOLEAN,
     query_name : Names \cup {<<"EXAMPLE", "com">>, <<"*", "com">>},
     query_fqdn : BOOLEAN]

\* TrustRecordType, the wire types
TrustRecordTypes ==
    {"A", "AAAA", "ANY", "AXFR", "CNAME", "MX", "NS", "PTR", "SOA", "SRV", "TXT"}

TypeFromTrustCalls ==
    {[fn |-> "RecordType::from_trust", done |-> FALSE, record_type |-> t] :
        t \in TrustRecordTypes}

TypeToTrustCalls ==
    {[fn |-> "RecordType::to_trust", done |-> FALSE, kind |-> k] :
        k \in RecordTypes}

\* a call is chosen; the resolver itself stays as constructed
RecordInit ==
    /\ conf = [zone |-> {}, nameservers |-> <<>>]
    /\ pending = {}
    /\ phase = "boot"
    /\ skipped = {}
    /\ authorities = NoAuthorities
    /\ store = [k \in {} |-> StoreRecord("A", <<>>, None)]
    /\ \/ call \in TxtCalls
       \/ call \in FromStrCalls
       \/ call \in FromTrustCalls
       \/ call \in TypeFromTrustCalls
       \/ call \in TypeToTrustCalls
    /\ pc = [t \in Threads |-> "idle"]
    /\ request = [t \in Threads |-> NoRequest]
    /\ response = [t \in Threads |-> Message_new]
    /\ qi = [t \in Threads |-> 0]
    /\ held = [t \in Threads |-> None]
    /\ trace = [t \in Threads |-> <<>>]

\* the call returns (or panics)
Returned(result) ==
    /\ call' = [fn |-> call.fn, done |-> TRUE, input |-> call, result |-> result]
    /\ UNCHANGED <<conf, pending, phase, skipped, authorities, store>>
    /\ UNCHANGED handlerVars

\* RecordValue::to_trust(&RecordType::TXT)
ToTrustTxt ==
    /\ call.fn = "RecordValue::to_trust" /\ ~call.done
    /\ Returned(to_trust_txt(Str(call.len, call.wide)))

\* RecordName::from_str
FromStr ==
    /\ call.fn = "RecordName::from_str" /\ ~call.done
    /\ Returned(RecordName_from_str(call.value))

\* RecordName::from_trust
FromTrust ==
    /\ call.fn = "RecordName::from_trust" /\ ~call.done
    /\ Returned(strip_zone(
           to_lowercase(to_string_of(call.query_name, call.query_fqdn)),
           to_lowercase(to_string_of(call.zone_name, call.zone_fqdn))))

\* RecordType::from_trust
TypeFromTrust ==
    /\ call.fn = "RecordType::from_trust" /\ ~call.done
    /\ Returned(RecordType_from_trust(call.record_type))

\* RecordType::to_trust
TypeToTrust ==
    /\ call.fn = "RecordType::to_trust" /\ ~call.done
    /\ Returned(RecordType_to_trust(call.kind))

RecordNext == ToTrustTxt \/ FromStr \/ FromTrust \/ TypeFromTrust \/ TypeToTrust

RecordSpec == RecordInit /\ [][RecordNext]_vars

\* ------------------------------------------------------------ properties
IsQuery(req) == req.message_type = "Query" /\ req.op_code = "Query"

\* name is the zone apex or lies below it
IsAtOrBelow(name, zone) ==
    /\ Len(zone) <= Len(name)
    /\ NameEq(SubSeq(name, Len(name) - Len(zone) + 1, Len(name)), zone)

\* the apexes of the zones the configuration names
ConfiguredApexes ==
    {NameParse(z).v : z \in {c \in conf.zone : NameParse(c).some}}

\* s ends with suffix
EndsWithSeq(s, suffix) ==
    /\ Len(suffix) <= Len(s)
    /\ SubSeq(s, Len(s) - Len(suffix) + 1, Len(s)) = suffix

\* the records returned for the questions of a trace, in question order
RECURSIVE ConcatRecords(_)
ConcatRecords(tr) ==
    IF Len(tr) = 0 THEN <<>>
    ELSE ConcatRecords(SubSeq(tr, 1, Len(tr) - 1)) \o Last(tr).records

\* the store gets issued for the questions of a trace
RECURSIVE ConcatGets(_)
ConcatGets(tr) ==
    IF Len(tr) = 0 THEN <<>>
    ELSE ConcatGets(SubSeq(tr, 1, Len(tr) - 1)) \o Last(tr).gets

\* the NS and SOA records the configuration gives a zone
ExpectedNs(origin) ==
    [i \in 1..Len(conf.nameservers) |->
        Record(origin, ConfRecordTtl, "NS", conf.nameservers[i])]

ExpectedSoa(origin) == << Record(origin, ConfRecordTtl, "SOA", "soa") >>

\* C1 as stated: every response, also one that refuses the request, carries
\* the request's id and echoes every question of the request.
C1_EchoesAllRequests ==
    \A t \in Threads :
        pc[t] = "done" =>
            /\ response[t].id = request[t].id
            /\ response[t].queries = request[t].queries

\* C1 amended: every response carries the request's id; the response to a
\* request of type Query and opcode Query echoes every question, in order; the
\* response that refuses any other request has an empty question section.
C1_IdAndQuestions ==
    \A t \in Threads :
        pc[t] = "done" =>
            /\ response[t].id = request[t].id
            /\ response[t].message_type = "Response"
            /\ IF IsQuery(request[t])
               THEN /\ response[t].queries = request[t].queries
                    /\ response[t].op_code = "Query"
               ELSE response[t].queries = <<>>

C1_Witness ==
    \E t \in Threads :
        /\ pc[t] = "done"
        /\ IsQuery(request[t])
        /\ Len(request[t].queries) = 2
        /\ request[t].queries[1] # request[t].queries[2]
        /\ response[t].queries = request[t].queries
        /\ response[t].id = 41

\* C2: a query with one question whose name is at or below no configured
\* zone apex is answered NXDomain with empty answer and authority sections,
\* and no store get is issued for it.
C2_NoAuthorityIsNXDomain ==
    \A t \in Threads :
        ( /\ pc[t] = "done"
          /\ IsQuery(request[t])
          /\ Len(request[t].queries) = 1
          /\ \A z \in ConfiguredApexes :
                 ~IsAtOrBelow(request[t].queries[1].name, z) )
        => /\ response[t].response_code = "NXDomain"
           /\ response[t].answers = <<>>
           /\ response[t].name_servers = <<>>
           /\ response[t].authoritative = FALSE
           /\ Len(trace[t]) = 1
           /\ ~trace[t][1].authority.some
           /\ ConcatGets(trace[t]) = <<>>

C2_Witness ==
    \E t \in Threads :
        /\ pc[t] = "done"
        /\ IsQuery(request[t])
        /\ Len(request[t].queries) = 1
        /\ ConfiguredApexes # {}
        /\ DOMAIN store # {}
        /\ \A z \in ConfiguredApexes :
               ~IsAtOrBelow(request[t].queries[1].name, z)
        /\ response[t].response_code = "NXDomain"

\* C3: once a question was answered under an authority with at least one
\* record (local or from the store), the response code is NoError, the
\* response is authoritative, the answer section ends with the records
\* returned, the authority section ends with the NS records of that
\* authority, and the additional section is empty.
C3_PositiveResponse ==
    \A t \in Threads :
        ( /\ Len(trace[t]) > 0
          /\ Last(trace[t]).authority.some
          /\ Len(Last(trace[t]).records) > 0 )
        => /\ Last(trace[t]).outcome \in {"local", "store"}
           /\ response[t].response_code = "NoError"
           /\ response[t].authoritative = TRUE
           /\ EndsWithSeq(response[t].answers, Last(trace[t]).records)
           /\ response[t].answers = ConcatRecords(trace[t])
           /\ EndsWithSeq(response[t].name_servers,
                          ExpectedNs(Last(trace[t]).authority.v))
           /\ response[t].additionals = <<>>

C3_Witness ==
    \E t \in Threads :
        /\ pc[t] = "done"
        /\ Len(trace[t]) = 2
        /\ trace[t][1].outcome = "negative"
        /\ trace[t][2].outcome = "store"
        /\ Len(ExpectedNs(trace[t][2].authority.v)) > 0
        /\ response[t].authoritative

\* C4: once a question was answered under an authority and no layer returned
\* a record, the authority section ends with the SOA of the zone, no answer
\* was added, and the response code is NXDomain after a local NoName and
\* NoError after a local NameExists.
C4_NegativeResponse ==
    \A t \in Threads :
        ( /\ Len(trace[t]) > 0
          /\ Last(trace[t]).authority.some
          /\ Len(Last(trace[t]).records) = 0 )
        => /\ Last(trace[t]).outcome = "negative"
           /\ EndsWithSeq(response[t].name_servers,
                          ExpectedSoa(Last(trace[t]).authority.v))
           /\ response[t].answers =
                  ConcatRecords(SubSeq(trace[t], 1, Len(trace[t]) - 1))
           /\ Last(trace[t]).local \in {"NoName", "NameExists"}
           /\ Last(trace[t]).local = "NoName" =>
                  response[t].response_code = "NXDomain"
           /\ Last(trace[t]).local = "NameExists" =>
                  response[t].response_code = "NoError"

C4_Witness ==
    \E t \in Threads :
        /\ pc[t] = "done"
        /\ Len(trace[t]) = 1
        /\ trace[t][1].outcome = "negative"
        /\ trace[t][1].local = "NameExists"
        /\ Len(trace[t][1].gets) > 0
        /\ response[t].response_code = "NoError"
        /\ response[t].name_servers = ExpectedSoa(trace[t][1].authority.v)

\* C10: a request whose opcode is not Query, and a request of type Response,
\* is answered NotImp with the request's id and opcode; no authority is
\* selected, no store get is issued and the answer and authority sections are
\* empty.
C10_RefusedNotImp ==
    \A t \in Threads :
        (pc[t] = "done" /\ ~IsQuery(request[t]))
        => /\ response[t].response_code = "NotImp"
           /\ response[t].id = request[t].id
           /\ response[t].op_code = request[t].op_code
           /\ response[t].message_type = "Response"
           /\ response[t].answers = <<>>
           /\ response[t].name_servers = <<>>
           /\ trace[t] = <<>>
           /\ ~held[t].some

C10_Witness ==
    \E t \in Threads :
        /\ pc[t] = "done"
        /\ request[t].message_type = "Query"
        /\ request[t].op_code = "Update"
        /\ Len(request[t].queries) = 1
        /\ find_auth_recurse(authorities, request[t].queries[1].name).some
        /\ response[t].response_code = "NotImp"
        /\ response[t].op_code = "Update"

\* the record name of a name at or below a zone: the labels before the zone,
\* each followed by ".", then "@"
RelativeName(zone, name) ==
    (IF Len(name) = Len(zone) THEN <<>>
     ELSE to_lowercase(to_string(SubSeq(name, 1, Len(name) - Len(zone)))))
    \o <<"@">>

\* the store key of a name and kind in a zone
StoreKey(zone, name, kind) ==
    <<to_lowercase(zone), RelativeName(zone, name), kind>>

\* the name with its leftmost label replaced by "*"
WildcardOf(name) == <<"*">> \o Tail(name)

\* the wire records of a store record: one per value that is valid for the
\* kind, in stored order, owned by owner
Expanded(owner, rec) ==
    LET valid == SelectSeq(rec.values, LAMBDA v : RecordValue_to_trust(v, rec.kind).some)
    IN  [i \in 1..Len(valid) |->
            Record(owner, IF rec.ttl.some THEN rec.ttl.v ELSE ConfRecordTtl,
                   rec.kind, [kind |-> rec.kind, data |-> valid[i]])]

Range(seq) == {seq[i] : i \in 1..Len(seq)}

\* the bytes of the chunks one after the other
RECURSIVE Flatten(_)
Flatten(chunks) ==
    IF Len(chunks) = 0 THEN <<>>
    ELSE Flatten(SubSeq(chunks, 1, Len(chunks) - 1)) \o Last(chunks)

\* C13 as stated: RecordValue::to_trust for TXT returns, for every non-empty
\* value, chunks of at most 255 bytes, all but the last of exactly 255
\* bytes, whose concatenation is the value, and fails (Err) on the empty
\* value.
C13_TxtChunks ==
    (call.fn = "RecordValue::to_trust" /\ call.done)
    => LET value == Str(call.input.len, call.input.wide)
           chunks == call.result.chunks
       IN  IF Len(value) = 0
           THEN call.result.tag = "Err"
           ELSE /\ call.result.tag = "Ok"
                /\ Len(chunks) > 0
                /\ Flatten(chunks) = value
                /\ \A i \in 1..Len(chunks) :
                       /\ Len(chunks[i]) <= DATA_TXT_CHUNK_MAXIMUM
                       /\ i < Len(chunks) =>
                              Len(chunks[i]) = DATA_TXT_CHUNK_MAXIMUM

\* a label of a record name: a token that is no separator, sentinel or
\* wildcard and holds no forbidden character
IsLabel(t) == t \notin {".", "@", "*", "/"}

\* label(\.label)*\. over tokens
IsLabelsDot(s) ==
    /\ Len(s) >= 2
    /\ Len(s) % 2 = 0
    /\ \A i \in 1..Len(s) : IF i % 2 = 1 THEN IsLabel(s[i]) ELSE s[i] = "."

\* the record-name grammar (\*\.)?(label(\.label)*\.)?@ in any letter case
MatchesGrammar(s) ==
    /\ Len(s) >= 1
    /\ Last(s) = "@"
    /\ \E p \in {0, 2} :
         /\ p <= Len(s) - 1
         /\ p = 2 => (s[1] = "*" /\ s[2] = ".")
         /\ \/ p = Len(s) - 1
            \/ IsLabelsDot(SubSeq(s, p + 1, Len(s) - 1))

\* C14 as stated: RecordName::from_str returns Some(n) for every canonical
\* name n (lowercase, matching the grammar), rejects every string that does
\* not match the grammar, and every name it accepts is lowercase and ends
\* with "@".
C14_FromStrRoundTrip ==
    (call.fn = "RecordName::from_str" /\ call.done)
    => /\ ( MatchesGrammar(call.input.value)
            /\ call.input.value = to_lowercase(call.input.value) )
          => call.result = Some(call.input.value)
       /\ ~MatchesGrammar(call.input.value) => ~call.result.some
       /\ call.result.some => /\ call.result.v = to_lowercase(call.result.v)
                              /\ Last(call.result.v) = "@"

\* C15 as stated: for a zone origin other than the root, fully qualified as
\* map_authority parses it, and a query name at or below it,
\* RecordName::from_trust returns the labels of the query name in front of
\* the origin, lowercased and each followed by ".", then "@" (just "@" when
\* the query name is the origin), whatever the letter case of the two names
\* and whether or not the query name carries a trailing dot.
C15_FromTrustStrips ==
    ( /\ call.fn = "RecordName::from_trust" /\ call.done
      /\ call.input.zone_fqdn /\ ~is_root(call.input.zone_name)
      /\ IsAtOrBelow(call.input.query_name, call.input.zone_name) )
    => call.result =
           Some(RelativeName(call.input.zone_name, call.input.query_name))

\* C16: RecordType::to_trust succeeds on every supported type and
\* RecordType::from_trust takes its result back to the same type;
\* from_trust returns the type of the same name for the six supported wire
\* types and rejects every other wire type.
C16_TypeRoundTrip ==
    /\ (call.fn = "RecordType::to_trust" /\ call.done)
       => /\ call.result.some
          /\ RecordType_from_trust(call.result.v) = Some(call.input.kind)
    /\ (call.fn = "RecordType::from_trust" /\ call.done)
       => IF call.input.record_type \in {"A", "AAAA", "CNAME", "MX", "TXT", "PTR"}
          THEN /\ call.result = Some(call.input.record_type)
               /\ RecordType_to_trust(call.result.v) = Some(call.input.record_type)
          ELSE ~call.result.some

C16_Witness ==
    /\ call.fn = "RecordType::from_trust" /\ call.done
    /\ call.input.record_type = "MX"
    /\ call.result = Some("MX")
    /\ RecordType_to_trust("MX") = Some("MX")

\* C17 as stated: the server never serves while a configured zone whose name
\* does not parse is missing from the authority table; such a zone stops the
\* process during startup.
C17_UnparseableZoneAborts ==
    phase = "serving" =>
        \A z \in conf.zone :
            /\ NameParse(z).some
            /\ to_lowercase(NameParse(z).v) \in DOMAIN authorities

\* the wire records of the store record of a name and kind, if there is one
ExpandedAt(zone, name, kind, owner) ==
    IF StoreKey(zone, name, kind) \in DOMAIN store
    THEN Expanded(owner, store[StoreKey(zone, name, kind)])
    ELSE <<>>

\* what one store attempt on a name yields: the records of the queried kind,
\* then the CNAME hint
AttemptRecords(zone, name, q) ==
    ExpandedAt(zone, name, q.qtype, q.name) \o
    (IF q.qtype # "CNAME" THEN ExpandedAt(zone, name, "CNAME", q.name) ELSE <<>>)

\* the store keys one attempt on a name asks for, in order
AttemptKeys(zone, name, kind) ==
    << StoreKey(zone, name, kind) >> \o
    (IF kind # "CNAME" THEN << StoreKey(zone, name, "CNAME") >> ELSE <<>>)

\* C18: a question under an authority goes through the layers in order.
\* Served from the local set, it asks the store nothing.  Otherwise the
\* exact name is attempted first (its key of the queried kind, then its
\* CNAME key); if that attempt yields a record, its records are the answer
\* and no wildcard is asked; the wildcard name is attempted only after an
\* exact attempt without records, its keys are asked after the exact ones,
\* and the answer is then made of the wildcard's records alone.
C18_LayerOrder ==
    \A t \in Threads :
        \A i \in 1..Len(trace[t]) :
            LET e == trace[t][i]
                q == e.query
                z == e.authority.v
            IN  e.authority.some =>
                /\ e.outcome = "local" =>
                       /\ e.local = "Records"
                       /\ e.gets = <<>> /\ e.attempted = <<>>
                /\ e.outcome \in {"store", "negative"} =>
                       /\ e.local # "Records"
                       /\ Len(e.attempted) \in {1, 2}
                       /\ e.attempted[1] = q.name
                /\ (e.outcome \in {"store", "negative"} /\ q.qtype \in RecordTypes) =>
                       /\ Len(e.gets) >= Len(AttemptKeys(z, q.name, q.qtype))
                       /\ SubSeq(e.gets, 1, Len(AttemptKeys(z, q.name, q.qtype)))
                              = AttemptKeys(z, q.name, q.qtype)
                       /\ AttemptRecords(z, q.name, q) # <<>> =>
                              /\ e.outcome = "store"
                              /\ e.records = AttemptRecords(z, q.name, q)
                              /\ e.attempted = <<q.name>>
                              /\ e.gets = AttemptKeys(z, q.name, q.qtype)
                       /\ Len(e.attempted) = 2 =>
                              /\ AttemptRecords(z, q.name, q) = <<>>
                              /\ Len(q.name) > 0 =>
                                     e.attempted[2] = WildcardOf(q.name)
                       /\ (Len(e.attempted) = 2 /\ Len(q.name) > Len(z)) =>
                              /\ e.gets = AttemptKeys(z, q.name, q.qtype) \o
                                          AttemptKeys(z, WildcardOf(q.name), q.qtype)
                              /\ e.records = AttemptRecords(z, WildcardOf(q.name), q)

C18_Witness ==
    \E t \in Threads :
        /\ Len(trace[t]) = 1
        /\ trace[t][1].outcome = "store"
        /\ Len(trace[t][1].attempted) = 2
        /\ trace[t][1].query.qtype = "A"
        /\ StoreKey(trace[t][1].authority.v, trace[t][1].query.name, "CNAME")
               \in DOMAIN store
        /\ Len(trace[t][1].records) = 1

\* C19 as stated: a question asks the store for at most one wildcard name,
\* the query name with its leftmost label replaced by "*"; when the query
\* name has a single label, or is that wildcard name itself, no
\* wildcard name is attempted and no store get beyond those of the exact name
\* is issued.
C19_WildcardOnlyOfParent ==
    \A t \in Threads :
        \A i \in 1..Len(trace[t]) :
            LET e == trace[t][i]
                q == e.query
            IN  e.authority.some =>
                /\ Len(e.attempted) <= 2
                /\ (Len(e.attempted) = 2 /\ Len(q.name) > 0) =>
                       e.attempted[2] = WildcardOf(q.name)
                /\ (Len(q.name) = 1 \/ (Len(q.name) > 1 /\ q.name[1] = "*")) =>
                       /\ Len(e.attempted) <= 1
                       /\ Len(e.gets) <= 2

\* whether the wildcard of the question's name is a further layer: the name
\* lies below the apex and is no wildcard name itself
HasWildcardLayer(zone, q) == Len(q.name) > Len(zone) /\ q.name[1] # "*"

\* C20: for a question of a supported type answered under an authority, a
\* stored value whose conversion fails (to_trust returns Err) is left out
\* and the other values of the record are returned in stored order; a record
\* none of whose values convert is a miss: the answer is then the CNAME hint
\* of the name, else the records of the wildcard name, else the negative
\* response.  The request is answered in every one of these cases.
C20_InvalidValuesSkipped ==
    \A t \in Threads :
        \A i \in 1..Len(trace[t]) :
            LET e == trace[t][i]
                q == e.query
                z == e.authority.v
            IN  (e.authority.some /\ q.qtype \in RecordTypes) =>
                IF AttemptRecords(z, q.name, q) # <<>>
                THEN /\ e.outcome = "store"
                     /\ e.records = AttemptRecords(z, q.name, q)
                ELSE IF /\ HasWildcardLayer(z, q)
                        /\ AttemptRecords(z, WildcardOf(q.name), q) # <<>>
                     THEN /\ e.outcome = "store"
                          /\ e.records = AttemptRecords(z, WildcardOf(q.name), q)
                     ELSE /\ e.outcome = "negative"
                          /\ e.records = <<>>

C20_Witness ==
    \E t \in Threads :
        /\ pc[t] = "done"
        /\ Len(trace[t]) = 1
        /\ trace[t][1].outcome = "store"
        /\ trace[t][1].query.qtype = "A"
        /\ StoreKey(trace[t][1].authority.v, trace[t][1].query.name, "A")
               \in DOMAIN store
        /\ store[StoreKey(trace[t][1].authority.v, trace[t][1].query.name, "A")].values
               = <<"bogus", "9.9.9.9">>
        /\ Len(response[t].answers) = 1
        /\ response[t].answers[1].rdata.data = "9.9.9.9"

\* the response of one question, computed from the table and the store alone
AloneStep(resp, q) ==
    IF find_auth_recurse(authorities, q.name).some
    THEN lookup_with_authority(store, resp,
                               find_auth_recurse(authorities, q.name).v,
                               q).response
    ELSE lookup_without_authority(resp)

RECURSIVE AloneFrom(_, _, _)
AloneFrom(resp, queries, i) ==
    IF i > Len(queries) THEN resp
    ELSE AloneFrom(AloneStep(resp, queries[i]), queries, i + 1)

\* the response a request gets when its handler is the only one running
AloneResponse(req) ==
    IF IsQuery(req) THEN AloneFrom(lookup_begin(req), req.queries, 1)
    ELSE refuse(req)

\* the state of one handler
HandlerState(t) == <<pc[t], request[t], response[t], qi[t], held[t], trace[t]>>

\* C21: with handlers interleaving in any order, a handler holds a read guard
\* only while it answers one question (at most one, of an authority of the
\* table, none once it has returned or unwound), a handler about to take a
\* guard or to return can always do so whatever the other handlers hold (the
\* step under the guard takes no further lock), a returned response equals the response the request gets alone against
\* the same table and store, and no step of a handler changes the table, the
\* store or another handler
C21_ConcurrentReadersOnly ==
    /\ [](\A t \in Threads :
            /\ held[t].some =>
                 /\ pc[t] = "locked"
                 /\ to_lowercase(held[t].v) \in DOMAIN authorities
            /\ pc[t] = "lookup" =>
                 ENABLED (SelectAuthority(t) \/ NoAuthority(t) \/ Return(t))
            /\ pc[t] = "done" => response[t] = AloneResponse(request[t]))
    /\ [][/\ phase = "serving" => authorities' = authorities /\ store' = store
          /\ \A t, u \in Threads :
                (t # u /\ HandlerState(t)' # HandlerState(t))
                    => HandlerState(u)' = HandlerState(u)]_vars

\* two handlers hold the read guard of the same authority at once, one of
\* them at its second question
C21_Witness ==
    /\ pc[1] = "locked" /\ pc[2] = "locked"
    /\ held[1] = held[2]
    /\ Len(trace[1]) > 0

\* the questions processed so far that were answered with records
PositiveSoFar(t) ==
    {i \in 1..Len(trace[t]) : trace[t][i].outcome \in {"local", "store"}}

\* C22: after each question of a request, the response is authoritative
\* exactly if one of the questions processed so far was answered with
\* records of the local set or of the store; a negative answer or a question
\* without authority neither sets the flag nor clears it
C22_AuthoritativeIffPositive ==
    \A t \in Threads :
        (pc[t] \in {"lookup", "locked", "done"} /\ IsQuery(request[t]))
          => (response[t].authoritative <=> PositiveSoFar(t) # {})

\* a request of two questions whose first was answered with records and
\* whose second was answered negatively: the response stays authoritative
C22_Witness ==
    /\ pc[1] = "done"
    /\ Len(trace[1]) = 2
    /\ trace[1][1].outcome \in {"local", "store"}
    /\ trace[1][2].outcome = "negative"
    /\ response[1].authoritative

\* C23 as stated: every store get issued for a question has the selected
\* authority's origin as zone and, as record name, the origin stripped from
\* an effective name (the query name or its wildcard name) that is the
\* origin or lies below it; no get is issued for an effective name outside
\* the zone.
C23_GetsInsideZone ==
    \A t \in Threads :
        \A i \in 1..Len(trace[t]) :
            trace[t][i].authority.some =>
                \A k \in 1..Len(trace[t][i].gets) :
                    /\ trace[t][i].gets[k][1] = to_lowercase(trace[t][i].authority.v)
                    /\ \E j \in 1..Len(trace[t][i].attempted) :
                          /\ IsAtOrBelow(trace[t][i].attempted[j],
                                         trace[t][i].authority.v)
                          /\ trace[t][i].gets[k][2] =
                                RelativeName(trace[t][i].authority.v,
                                             trace[t][i].attempted[j])

\* C11 as stated: no request ends without a response, whatever the request,
\* the state of the authority and the contents of the store; a handler that
\* panicked has left handle_request without returning a response.
C11_NeverAborts == \A t \in Threads : pc[t] # "panicked"

\* the response code a question gets when it is the only one of its request
AloneCode(req, q) ==
    IF find_auth_recurse(authorities, q.name).some
    THEN lookup_with_authority(store, lookup_begin(req),
                               find_auth_recurse(authorities, q.name).v,
                               q).response.response_code
    ELSE lookup_without_authority(lookup_begin(req)).response_code

\* the authority records the questions of a trace produced, in question
\* order: the NS records of the zone of a positive answer, the SOA record of
\* the zone of a negative one
RECURSIVE ConcatAuthority(_)
ConcatAuthority(tr) ==
    IF Len(tr) = 0 THEN <<>>
    ELSE ConcatAuthority(SubSeq(tr, 1, Len(tr) - 1)) \o
         (IF Last(tr).outcome \in {"local", "store"}
          THEN ExpectedNs(Last(tr).authority.v)
          ELSE IF Last(tr).outcome = "negative"
               THEN ExpectedSoa(Last(tr).authority.v)
               ELSE <<>>)

\* C12: the questions of a request are processed one after the other in
\* their order (the i-th thing done is for the i-th question, and the loop
\* is at the question after the last one done); the response code of the
\* returned response is the code its last question gets when asked alone;
\* the answer section is the records of all questions and the authority
\* section the authority records of all questions, in question order.
C12_QuestionsInOrderLastCode ==
    \A t \in Threads :
        /\ pc[t] \in {"lookup", "locked", "done"} /\ IsQuery(request[t])
           => /\ Len(trace[t]) = qi[t] - 1
              /\ Len(trace[t]) <= Len(request[t].queries)
              /\ \A i \in 1..Len(trace[t]) :
                     trace[t][i].query = request[t].queries[i]
              /\ response[t].answers = ConcatRecords(trace[t])
              /\ response[t].name_servers = ConcatAuthority(trace[t])
        /\ ( /\ pc[t] = "done" /\ IsQuery(request[t])
             /\ Len(request[t].queries) > 0 )
           => /\ Len(trace[t]) = Len(request[t].queries)
              /\ response[t].response_code =
                     AloneCode(request[t], Last(request[t].queries))

C12_Witness ==
    \E t \in Threads :
        /\ pc[t] = "done"
        /\ Len(request[t].queries) = 2
        /\ trace[t][1].outcome = "store"
        /\ trace[t][2].outcome = "noauth"
        /\ response[t].response_code = "NXDomain"
        /\ Len(response[t].answers) > 0
        /\ Len(response[t].name_servers) > 0

\* C5 as stated: a name below the apex, no wildcard name itself, that has a
\* store record of another kind, but none of the queried kind, no CNAME and
\* no wildcard record, is answered NODATA: NoError, no answer, the SOA of the
\* zone in the authority section.
C5_NodataWhenNameHasOtherType ==
    \A t \in Threads :
        ( /\ pc[t] = "done"
          /\ IsQuery(request[t])
          /\ Len(request[t].queries) = 1
          /\ trace[t][1].authority.some
          /\ request[t].queries[1].qtype \in RecordTypes
          /\ Len(request[t].queries[1].name) > Len(trace[t][1].authority.v)
          /\ request[t].queries[1].name[1] # "*"
          /\ LET q == request[t].queries[1]
                 z == trace[t][1].authority.v
             IN  /\ \E k \in RecordTypes \ {q.qtype, "CNAME"} :
                        StoreKey(z, q.name, k) \in DOMAIN store
                 /\ StoreKey(z, q.name, q.qtype) \notin DOMAIN store
                 /\ StoreKey(z, q.name, "CNAME") \notin DOMAIN store
                 /\ StoreKey(z, WildcardOf(q.name), q.qtype) \notin DOMAIN store
                 /\ StoreKey(z, WildcardOf(q.name), "CNAME") \notin DOMAIN store )
        => /\ response[t].response_code = "NoError"
           /\ response[t].answers = <<>>
           /\ response[t].name_servers = ExpectedSoa(trace[t][1].authority.v)

\* C6: for a question of a type other than CNAME answered from the store,
\* when the effective name (the exact name if its attempt found records, else
\* the wildcard name) holds a record of the queried type and a CNAME record,
\* the records returned are those expanded from the first followed by those
\* expanded from the CNAME record; the exact name is the effective one
\* whenever its two records expand to anything.
C6_TypeThenCname ==
    \A t \in Threads :
        /\ response[t].answers = ConcatRecords(trace[t])
        /\ \A i \in 1..Len(trace[t]) :
             LET e == trace[t][i]
                 q == e.query
             IN  /\ ( /\ e.effective.some
                      /\ q.qtype # "CNAME"
                      /\ StoreKey(e.authority.v, e.effective.v, q.qtype)
                             \in DOMAIN store
                      /\ StoreKey(e.authority.v, e.effective.v, "CNAME")
                             \in DOMAIN store )
                    => e.records =
                         Expanded(q.name,
                             store[StoreKey(e.authority.v, e.effective.v, q.qtype)])
                         \o
                         Expanded(q.name,
                             store[StoreKey(e.authority.v, e.effective.v, "CNAME")])
                 /\ ( /\ e.authority.some
                      /\ q.qtype \in RecordTypes \ {"CNAME"}
                      /\ StoreKey(e.authority.v, q.name, q.qtype) \in DOMAIN store
                      /\ StoreKey(e.authority.v, q.name, "CNAME") \in DOMAIN store
                      /\ Expanded(q.name,
                             store[StoreKey(e.authority.v, q.name, q.qtype)])
                         \o
                         Expanded(q.name,
                             store[StoreKey(e.authority.v, q.name, "CNAME")])
                         # <<>> )
                    => (e.effective.some /\ e.effective.v = q.name)

C6_Witness ==
    \E t \in Threads :
        /\ pc[t] = "done"
        /\ Len(trace[t]) = 1
        /\ trace[t][1].effective.some
        /\ trace[t][1].effective.v # trace[t][1].query.name
        /\ Len(response[t].answers) = 2
        /\ response[t].answers[1].rtype = "A"
        /\ response[t].answers[2].rtype = "CNAME"

\* C7 as stated: a question of any type but CNAME whose exact name has no
\* store record of that type but has a CNAME record gets a positive response
\* (NoError, authoritative) whose answers hold the CNAME records, owned by the
\* queried name.
C7_CnameHintAlways ==
    \A t \in Threads :
        ( /\ pc[t] = "done"
          /\ IsQuery(request[t])
          /\ Len(request[t].queries) = 1
          /\ trace[t][1].authority.some
          /\ request[t].queries[1].qtype # "CNAME"
          /\ StoreKey(trace[t][1].authority.v, request[t].queries[1].name,
                      request[t].queries[1].qtype) \notin DOMAIN store
          /\ StoreKey(trace[t][1].authority.v, request[t].queries[1].name,
                      "CNAME") \in DOMAIN store )
        => /\ response[t].response_code = "NoError"
           /\ response[t].authoritative
           /\ \E r \in Range(response[t].answers) :
                  r.rtype = "CNAME" /\ r.name = request[t].queries[1].name

\* C7 amended: a question of a kind the store holds, other than CNAME, whose
\* exact name has no store record of that kind but has a CNAME record with a
\* value that converts, gets a positive response (NoError, authoritative)
\* whose answers are exactly the converting CNAME values of that name, owned
\* by the queried name, whatever the wildcard name holds.
C7_CnameHintServed ==
    \A t \in Threads :
        ( /\ pc[t] = "done"
          /\ IsQuery(request[t])
          /\ Len(request[t].queries) = 1
          /\ trace[t][1].authority.some
          /\ request[t].queries[1].qtype \in RecordTypes \ {"CNAME"}
          /\ StoreKey(trace[t][1].authority.v, request[t].queries[1].name,
                      request[t].queries[1].qtype) \notin DOMAIN store
          /\ StoreKey(trace[t][1].authority.v, request[t].queries[1].name,
                      "CNAME") \in DOMAIN store
          /\ Expanded(request[t].queries[1].name,
                 store[StoreKey(trace[t][1].authority.v,
                                request[t].queries[1].name, "CNAME")]) # <<>> )
        => /\ response[t].response_code = "NoError"
           /\ response[t].authoritative
           /\ response[t].answers =
                  Expanded(request[t].queries[1].name,
                      store[StoreKey(trace[t][1].authority.v,
                                     request[t].queries[1].name, "CNAME")])
           /\ \A r \in Range(response[t].answers) :
                  r.rtype = "CNAME" /\ r.name = request[t].queries[1].name

C7_Witness ==
    \E t \in Threads :
        /\ pc[t] = "done"
        /\ IsQuery(request[t])
        /\ Len(request[t].queries) = 1
        /\ trace[t][1].authority.some
        /\ request[t].queries[1].qtype = "A"
        /\ Len(request[t].queries[1].name) > Len(trace[t][1].authority.v)
        /\ StoreKey(trace[t][1].authority.v, request[t].queries[1].name, "A")
               \notin DOMAIN store
        /\ StoreKey(trace[t][1].authority.v, request[t].queries[1].name, "CNAME")
               \in DOMAIN store
        /\ StoreKey(trace[t][1].authority.v,
                    WildcardOf(request[t].queries[1].name), "A") \in DOMAIN store
        /\ Len(response[t].answers) = 1
        /\ response[t].answers[1].rtype = "CNAME"

\* C8: every record returned from the store for a question is owned by the
\* name the question asked for, and by no other name when the records were
\* matched under the wildcard name; the answer section holds exactly the
\* records returned for the questions.
C8_OwnerIsQueriedName ==
    \A t \in Threads :
        /\ response[t].answers = ConcatRecords(trace[t])
        /\ \A i \in 1..Len(trace[t]) :
             trace[t][i].outcome = "store" =>
                 \A r \in Range(trace[t][i].records) :
                     /\ r.name = trace[t][i].query.name
                     /\ trace[t][i].effective.v # trace[t][i].query.name
                            => r.name # trace[t][i].effective.v

C8_Witness ==
    \E t \in Threads :
        /\ pc[t] = "done"
        /\ Len(trace[t]) = 1
        /\ trace[t][1].outcome = "store"
        /\ trace[t][1].effective.v = WildcardOf(trace[t][1].query.name)
        /\ trace[t][1].query.name[1] # "*"
        /\ Len(response[t].answers) > 0
        /\ response[t].answers[1].name = trace[t][1].query.name

\* C9 as stated: the authority selected for a question is a configured zone
\* with the most labels among those whose apex is the queried name or an
\* ancestor of it, and none is selected only when there is no such zone.
C9_DeepestCoveringZone ==
    \A t \in Threads :
        \A i \in 1..Len(trace[t]) :
            LET e == trace[t][i]
                covering == {z \in DOMAIN authorities :
                                 IsAtOrBelow(e.query.name, z)}
            IN  IF covering = {}
                THEN ~e.authority.some
                ELSE /\ e.authority.some
                     /\ to_lowercase(e.authority.v) \in covering
                     /\ \A z \in covering : Len(z) <= Len(e.authority.v)

====
